---- MODULE Spec2Model ----
(***************************************************************************)
(* Model of src/constants.cpp: the override registry (customTypeNames),    *)
(* the type resolver (getUSRForType, normalizeTypeName, resolveTypeName),  *)
(* the literal serializer (compoundLiteralToNamedInit, exprToString) and   *)
(* the C entry points set_custom_type_names, macro_to_named_initializer    *)
(* and free_cstr.                                                          *)
(*                                                                         *)
(* Text is a sequence of tokens: every piece the code appends to a string  *)
(* is one token, and a verbatim source span is the sequence of its lexical *)
(* tokens, so braces can be counted exactly.  The empty string is << >>.   *)
(***************************************************************************)
EXTENDS Integers, Sequences, FiniteSets, TLC

VARIABLES
    customTypeNames,  \* constants.cpp:25, the process-wide override registry
    setCall,          \* arguments of the last recorded set_custom_type_names call
    prevKeys,         \* keys the registry held before that call
    qt,               \* type handed to the last resolveTypeName call
    typeName,         \* what that call returned
    expr,             \* expression handed to the last exprToString call
    text,             \* what that call produced
    call,             \* arguments and driver outcome of the last macro_to_named_initializer
    result,           \* what that call returned
    heap,             \* addresses malloc'ed and not yet freed
    held              \* addresses the caller received and has not released

vars == <<customTypeNames, setCall, prevKeys, qt, typeName, expr, text,
          call, result, heap, held>>

None == [none |-> TRUE]

-----------------------------------------------------------------------------
(* Bounds *)

MaxEntries == 2

MaxLive == 2

-----------------------------------------------------------------------------
(* The type system as the engine reads it (clang QualType).                *)
(* A canonical type carries its class, its builtin kind, the builtin kind  *)
(* of its pointee, its record declaration, its printed form and its USR.   *)

Canon(cls, kind, pointee, decl, str, usrOk, usr) ==
    [cls |-> cls, kind |-> kind, pointee |-> pointee, decl |-> decl,
     str |-> str, usrOk |-> usrOk, usr |-> usr]

BuiltinTy(kind, str, usr) == Canon("Builtin", kind, "", "", str, TRUE, usr)

PointerTy(pointee, str, usr) == Canon("Pointer", "", pointee, "", str, TRUE, usr)

RecordTy(decl, str, usr) == Canon("Record", "", "", decl, str, TRUE, usr)

\* a pointer for which clang::index::generateUSRForType reports failure
NoUsrPointerTy(pointee, str) == Canon("Pointer", "", pointee, "", str, FALSE, "")

QT(spelling, canon) == [spelling |-> spelling, canon |-> canon]

\* builtin types; plain char is Char_S or Char_U depending on the target
IntTy == BuiltinTy("Int", "int", "c:I")
ShortTy == BuiltinTy("Short", "short", "c:S")
LongLongTy == BuiltinTy("LongLong", "long long", "c:K")
LongTy == BuiltinTy("Long", "long", "c:L")
UIntTy == BuiltinTy("UInt", "unsigned int", "c:i")
CharSTy == BuiltinTy("Char_S", "char", "c:C")
CharUTy == BuiltinTy("Char_U", "char", "c:C")
UCharTy == BuiltinTy("UChar", "unsigned char", "c:c")
SCharTy == BuiltinTy("SChar", "signed char", "c:r")
FloatTy == BuiltinTy("Float", "float", "c:f")
DoubleTy == BuiltinTy("Double", "double", "c:d")
LongDoubleTy == BuiltinTy("LongDouble", "long double", "c:D")

CharSPtrTy == PointerTy("Char_S", "char *", "c:*C")
CharUPtrTy == PointerTy("Char_U", "char *", "c:*C")
ConstCharPtrTy == PointerTy("Char_S", "const char *", "c:*1C")
UCharPtrTy == PointerTy("UChar", "unsigned char *", "c:*c")
VoidPtrTy == PointerTy("Void", "void *", "c:*v")
IntPtrTy == PointerTy("Int", "int *", "c:*I")
PointPtrTy == PointerTy("", "Point *", "c:*$@SA@Point")
\* the canonical type of Callback (tests/test_edge_cases.h:46)
CallbackTy == PointerTy("", "int (*)(int, void *)", "c:*FI(#I#*v)")
\* __bf16 has no USR encoding, and neither has a pointer to it
BFloat16PtrTy == NoUsrPointerTy("BFloat16", "__bf16 *")

EnumColorTy == Canon("Enum", "", "", "Color", "Color", TRUE, "c:$@EA@Color")
IntArrayTy == Canon("Array", "", "", "", "int[3]", TRUE, "c:{n3I")

\* the relative header path under which the fixture of
\* tests/test_edge_cases.h is read
EdgeCasesHeader == "src/tests/test_edge_cases.h"

\* the name under which #include "path" of the generated code
\* (constants.cpp:226) finds a header given by a relative path: the
\* generated file macro_eval.c lies in the working directory, and the
\* header is found in that directory, "."
IncludedAs(path) == "./" \o path

\* QualType::getAsString for the unnamed member struct of ComplexStruct: the
\* enclosing record and the place of the declaration in the file as the
\* include found it
UnnamedAt(file) == "struct ComplexStruct::(unnamed at " \o file \o ":86:5)"

\* records: Point, Data and ComplexStruct with its unnamed member struct are
\* those of tests/test_edge_cases.h; Vec (typedef Vec2D), Line, Box and Label
\* are further records of the shapes the serializer distinguishes, and P2 is
\* a C++ struct with a constructor.  The USR of an unnamed record ends with
\* the file name and the offset of its declaration.
PointTy == RecordTy("Point", "Point", "c:$@SA@Point")
VecTy == RecordTy("Vec", "struct Vec", "c:$@S@Vec")
LineTy == RecordTy("Line", "Line", "c:$@SA@Line")
BoxTy == RecordTy("Box", "Box", "c:$@SA@Box")
DataTy == RecordTy("Data", "Data", "c:$@UA@Data")
ComplexStructTy == RecordTy("ComplexStruct", "ComplexStruct", "c:$@SA@ComplexStruct")
InfoTy == RecordTy("info", UnnamedAt(IncludedAs(EdgeCasesHeader)),
                   "c:$@SA@ComplexStruct@S@test_edge_cases.h@1396")
LabelTy == RecordTy("Label", "Label", "c:$@SA@Label")
P2Ty == RecordTy("P2", "struct P2", "c:$@S@P2")

\* field names of a record declaration, in declared order (rd->fields())
Fields(decl) ==
    CASE decl = "Point" -> <<"x", "y">>
      [] decl = "Vec" -> <<"x", "y">>
      [] decl = "Line" -> <<"from", "to">>
      [] decl = "Box" -> <<"edge", "id">>
      [] decl = "Data" -> <<"i", "f", "str">>
      [] decl = "ComplexStruct" -> <<"info", "position">>
      [] decl = "info" -> <<"metric", "description">>
      [] decl = "Label" -> <<"text", "id">>
      [] decl = "P2" -> <<"x", "y">>
      [] OTHER -> << >>

\* the types the resolver is exercised on: each canonical type under its own
\* spelling, and typedef spellings that reach the same canonical type
QualTypes ==
    { QT(c.str, c) : c \in {IntTy, ShortTy, LongLongTy, LongTy, UIntTy, CharSTy,
                            CharUTy, UCharTy, SCharTy, FloatTy, DoubleTy,
                            LongDoubleTy, CharSPtrTy, CharUPtrTy, ConstCharPtrTy,
                            UCharPtrTy, VoidPtrTy, IntPtrTy, PointPtrTy,
                            CallbackTy, BFloat16PtrTy, EnumColorTy, IntArrayTy,
                            PointTy, VecTy, DataTy, ComplexStructTy, InfoTy} }
    \cup { QT("int32_t", IntTy), QT("uint8_t", UCharTy), QT("MyFloat", FloatTy),
           QT("Callback", CallbackTy), QT("Vec2D", VecTy), QT("Position", PointTy) }

-----------------------------------------------------------------------------
(* Type resolver *)

isSpecificBuiltinType(c, K) == c.cls = "Builtin" /\ c.kind = K

IntegerKinds == {"Int", "Short", "LongLong", "Long", "UInt", "Char_S", "Char_U",
                 "UChar", "SChar"}

FloatingKinds == {"Float", "Double", "LongDouble"}

isIntegerType(c) ==
    \/ c.cls = "Builtin" /\ c.kind \in IntegerKinds
    \/ c.cls = "Enum"

isFloatingType(c) == c.cls = "Builtin" /\ c.kind \in FloatingKinds

isPointerType(c) == c.cls = "Pointer"

isRecordType(c) == c.cls = "Record"

\* constants.cpp:29-39; the identity is generated from the canonical type,
\* and a failed generation yields the empty string
getUSRForType(T) == IF T.canon.usrOk THEN T.canon.usr ELSE ""

\* constants.cpp:41-94
normalizeTypeName(T) ==
    LET canonical == T.canon IN
    IF isIntegerType(canonical) /\ isSpecificBuiltinType(canonical, "Int") THEN "i32"
    ELSE IF isIntegerType(canonical) /\ isSpecificBuiltinType(canonical, "Short") THEN "i16"
    ELSE IF isIntegerType(canonical) /\ isSpecificBuiltinType(canonical, "LongLong") THEN "i64"
    ELSE IF isIntegerType(canonical)
            /\ (\/ isSpecificBuiltinType(canonical, "Char_U")
                \/ isSpecificBuiltinType(canonical, "Char_S")) THEN "u8"
    ELSE IF isFloatingType(canonical) /\ isSpecificBuiltinType(canonical, "Float") THEN "f32"
    ELSE IF isFloatingType(canonical) /\ isSpecificBuiltinType(canonical, "Double") THEN "f64"
    ELSE IF isPointerType(canonical) THEN
        IF canonical.pointee = "Char_S" \/ canonical.pointee = "Char_U"
        THEN "str" ELSE "anyptr"
    ELSE T.spelling

\* resolveTypeName consulting the registry only for types the structural
\* mapping leaves unnamed
resolveTypeName_structureFirst(T, names) ==
    LET usr == getUSRForType(T) IN
    IF normalizeTypeName(T) # T.spelling THEN normalizeTypeName(T)
    ELSE IF usr \in DOMAIN names THEN names[usr] ELSE normalizeTypeName(T)

\* constants.cpp:96-107
resolveTypeName(T, names) ==
    LET usr == getUSRForType(T) IN
    IF usr \in DOMAIN names THEN names[usr] ELSE normalizeTypeName(T)

-----------------------------------------------------------------------------
(* Override registry *)

KeySet == {"c:I", "c:$@SA@Point"}

NameSet == {"Vec2", "Handle"}

EmptyNames == [k \in {} |-> ""]

\* customTypeNames[k] = v
Put(names, k, v) == [x \in (DOMAIN names) \cup {k} |-> IF x = k THEN v ELSE names[x]]

\* the loop of constants.cpp:204-207, from index i (0-based) up to count
RECURSIVE InsertFrom(_, _, _, _, _)
InsertFrom(names, usrs, entryNames, i, count) ==
    IF i < count
    THEN InsertFrom(Put(names, usrs[i + 1], entryNames[i + 1]), usrs, entryNames, i + 1, count)
    ELSE names

\* the arrays of length up to MaxEntries a caller passes, with a count that
\* does not exceed their length (the whole arrays, or all but the last entry)
SetInputs ==
    UNION { { [usrs |-> u, names |-> n, count |-> c] :
                u \in [1..len -> KeySet], n \in [1..len -> NameSet],
                c \in {len - 1, len} } : len \in 0..MaxEntries }

\* set_custom_type_names without the clear() of constants.cpp:203
set_custom_type_names_merge(usrs, entryNames, count) ==
    customTypeNames' = InsertFrom(customTypeNames, usrs, entryNames, 0, count)

\* constants.cpp:201-209
set_custom_type_names(usrs, entryNames, count) ==
    customTypeNames' = InsertFrom(EmptyNames, usrs, entryNames, 0, count)

-----------------------------------------------------------------------------
(* Expression trees as the driver hands them over (clang Expr) *)

IntegerLiteral(v) == [kind |-> "IntegerLiteral", value |-> v]

\* digits: what APFloat::toString prints for the literal's value
FloatingLiteral(digits) == [kind |-> "FloatingLiteral", digits |-> digits]

StringLiteral(s) == [kind |-> "StringLiteral", str |-> s]

ImplicitCastExpr(sub) == [kind |-> "ImplicitCastExpr", sub |-> sub]

CompoundLiteralExpr(T, init) == [kind |-> "CompoundLiteralExpr", type |-> T, init |-> init]

\* span: the tokens between the braces' locations; loc: where they were lexed
InitListExpr(inits, span, loc) ==
    [kind |-> "InitListExpr", inits |-> inits, span |-> span, loc |-> loc]

\* any expression class the serializer has no case for (DeclRefExpr,
\* UnaryOperator, BinaryOperator, ParenExpr, CXXConstructExpr, ...)
OtherExpr(kind, span, loc) == [kind |-> kind, span |-> span, loc |-> loc]

\* such an expression whose tokens are the whole expansion of a macro that
\* is invoked in a file: span holds the expanded tokens, invocation the
\* macro's name as written at the point of use
ExpandedExpr(kind, span, invocation) ==
    [kind |-> kind, span |-> span, loc |-> "expansion", invocation |-> invocation]

\* Expr::IgnoreImpCasts
RECURSIVE IgnoreImpCasts(_)
IgnoreImpCasts(e) == IF e.kind = "ImplicitCastExpr" THEN IgnoreImpCasts(e.sub) ELSE e

-----------------------------------------------------------------------------
(* Literal serializer *)

Digit(d) ==
    CASE d = 0 -> "0" [] d = 1 -> "1" [] d = 2 -> "2" [] d = 3 -> "3" [] d = 4 -> "4"
      [] d = 5 -> "5" [] d = 6 -> "6" [] d = 7 -> "7" [] d = 8 -> "8" [] d = 9 -> "9"

RECURSIVE Decimal(_)
Decimal(n) == IF n < 10 THEN Digit(n) ELSE Decimal(n \div 10) \o Digit(n % 10)

\* std::to_string(long long), constants.cpp:165
to_string(v) == IF v < 0 THEN "-" \o Decimal(0 - v) ELSE Decimal(v)

\* Lexer::getSourceText over the token range of e (constants.cpp:190-193):
\* a range lexed in a file maps to its text; a range that covers the whole
\* expansion of a macro invoked in a file maps to the invocation as written;
\* a range inside the body of a macro expansion has no file range and
\* yields the empty string
getSourceText(e) ==
    IF e.loc = "file" THEN e.span
    ELSE IF e.loc = "expansion" THEN e.invocation
    ELSE << >>

\* a serializer outcome: the text, or a fault of the process
Ok(out) == [fault |-> FALSE, out |-> out]

Fault == [fault |-> TRUE, out |-> << >>]

\* what reading ile->getInit(i) past the end of the list can deliver:
\* a trap, or a pointer to whatever expression lies behind the array
Trap == [kind |-> "Trap"]

OobReads == {Trap, IntegerLiteral(0)}

RECURSIVE compoundLiteralToNamedInit(_, _, _)
RECURSIVE FieldLoop(_, _, _, _, _)
RECURSIVE exprToString(_, _, _)

\* the body of the loop of constants.cpp:139-154 for field i (0-based) and
\* the fields after it
FieldLoop(ile, fields, i, names, oob) ==
    IF i >= Len(fields) THEN Ok(<< >>)
    ELSE
        LET sep == IF i > 0 THEN <<", ">> ELSE << >>
            head == sep \o <<fields[i + 1], "=">>
            got == IF i < Len(ile.inits) THEN ile.inits[i + 1] ELSE oob
        IN  IF got = Trap THEN Fault
            ELSE
                LET initExpr == IgnoreImpCasts(got)
                    v == IF initExpr.kind = "CompoundLiteralExpr"
                         THEN compoundLiteralToNamedInit(initExpr, names, oob)
                         ELSE exprToString(initExpr, names, oob)
                    rest == FieldLoop(ile, fields, i + 1, names, oob)
                IN  IF v.fault \/ rest.fault THEN Fault
                    ELSE Ok(head \o v.out \o rest.out)

\* constants.cpp:110-159
compoundLiteralToNamedInit(cle, names, oob) ==
    LET T == cle.type IN
    IF ~isRecordType(T.canon) THEN Ok(<<"<not a record>">>)
    ELSE IF cle.init.kind # "InitListExpr" THEN Ok(<<"<not an init list>">>)
    ELSE
        LET type_name == resolveTypeName(T, names)
            body == FieldLoop(cle.init, Fields(T.canon.decl), 0, names, oob)
        IN  IF body.fault THEN Fault
            ELSE Ok(<<type_name, "{">> \o body.out \o <<"}">>)

\* constants.cpp:161-196
exprToString(e, names, oob) ==
    IF e.kind = "IntegerLiteral" THEN Ok(<<to_string(e.value)>>)
    ELSE IF e.kind = "FloatingLiteral" THEN Ok(<<e.digits>>)
    ELSE IF e.kind = "StringLiteral" THEN Ok(<<"\"", e.str, "\".ref()">>)
    ELSE IF e.kind = "CompoundLiteralExpr" THEN compoundLiteralToNamedInit(e, names, oob)
    ELSE Ok(getSourceText(e))

-----------------------------------------------------------------------------
(* Expressions the driver produces for the fixtures' macros.  loc is "macro" *)
(* when the tokens come from the body of the evaluated macro and "file"     *)
(* when the caller wrote the literal itself in place of a macro name.  An   *)
(* operand written in a file as the name of a further macro is an           *)
(* ExpandedExpr.                                                            *)

Locs == {"file", "macro"}

IntList(a, b, loc) ==
    InitListExpr(<<IntegerLiteral(a), IntegerLiteral(b)>>,
                 <<"{", to_string(a), ",", to_string(b), "}">>, loc)

\* (Point){a, b}
PointLit(a, b, loc) == CompoundLiteralExpr(QT("Point", PointTy), IntList(a, b, loc))

\* (Vec2D){1.5, 2.0f} through the typedef Vec2D of struct Vec
VecLit(loc) ==
    CompoundLiteralExpr(QT("Vec2D", VecTy),
        InitListExpr(<<FloatingLiteral("1.5"), FloatingLiteral("2")>>,
                     <<"{", "1.5", ",", "2.0f", "}">>, loc))

PointSpan(a, b) == <<"(", "Point", ")", "{", to_string(a), ",", to_string(b), "}">>

LineListSpan == <<"{">> \o PointSpan(1, 2) \o <<",">> \o PointSpan(3, 4) \o <<"}">>

\* (Line){(Point){1,2}, (Point){3,4}}: a nested literal reaches its field
\* through an lvalue-to-rvalue implicit cast
LineLit(loc) ==
    CompoundLiteralExpr(QT("Line", LineTy),
        InitListExpr(<<ImplicitCastExpr(PointLit(1, 2, loc)),
                       ImplicitCastExpr(PointLit(3, 4, loc))>>, LineListSpan, loc))

\* (Box){(Line){(Point){1,2}, (Point){3,4}}, 7}
BoxLit(loc) ==
    CompoundLiteralExpr(QT("Box", BoxTy),
        InitListExpr(<<ImplicitCastExpr(LineLit(loc)), IntegerLiteral(7)>>,
                     <<"{", "(", "Line", ")">> \o LineListSpan \o <<",", "7", "}">>, loc))

\* (Label){"hi", 3}
LabelLit(loc) ==
    CompoundLiteralExpr(QT("Label", LabelTy),
        InitListExpr(<<ImplicitCastExpr(StringLiteral("hi")), IntegerLiteral(3)>>,
                     <<"{", "\"", "hi", "\"", ",", "3", "}">>, loc))

\* (Point){RED, -1}: an enumerator and a negated literal
EnumLit(loc) ==
    CompoundLiteralExpr(QT("Point", PointTy),
        InitListExpr(<<OtherExpr("DeclRefExpr", <<"RED">>, loc),
                       OtherExpr("UnaryOperator", <<"-", "1">>, loc)>>,
                     <<"{", "RED", ",", "-", "1", "}">>, loc))

\* (Point){NEG1, R} written in a file, with #define NEG1 (-1), #define R RED
ExpandedLit ==
    CompoundLiteralExpr(QT("Point", PointTy),
        InitListExpr(<<ExpandedExpr("ParenExpr", <<"(", "-", "1", ")">>, <<"NEG1">>),
                       ExpandedExpr("DeclRefExpr", <<"RED">>, <<"R">>)>>,
                     <<"{", "NEG1", ",", "R", "}">>, "file"))

\* the inner list { { 42 }, "ok" } of COMPLEX_VAL (tests/test_edge_cases.h:97)
InfoList(loc) ==
    InitListExpr(<<InitListExpr(<<IntegerLiteral(42)>>, <<"{", "42", "}">>, loc),
                   ImplicitCastExpr(StringLiteral("ok"))>>,
                 <<"{", "{", "42", "}", ",", "\"", "ok", "\"", "}">>, loc)

ComplexListSpan ==
    <<"{", "{", "{", "42", "}", ",", "\"", "ok", "\"", "}", ",">>
        \o PointSpan(3, 4) \o <<"}">>

\* (ComplexStruct){ { { 42 }, "ok" }, (Point){3,4} }: the literal of
\* COMPLEX_VAL with its type in parentheses
ComplexLit(loc) ==
    CompoundLiteralExpr(QT("ComplexStruct", ComplexStructTy),
        InitListExpr(<<InfoList(loc), ImplicitCastExpr(PointLit(3, 4, loc))>>,
                     ComplexListSpan, loc))

\* COMPLEX_VAL as the fixture writes it, ComplexStruct{ ... } without
\* parentheses: with C++ arguments a functional cast; as C it does not parse
\* and the sentinel is left without initializer (NoInit)
ComplexVal(loc) ==
    OtherExpr("CXXFunctionalCastExpr", <<"ComplexStruct">> \o ComplexListSpan, loc)

\* (int){5}: a compound literal of a type that is no record
ScalarLit(loc) ==
    CompoundLiteralExpr(QT("int", IntTy),
        InitListExpr(<<IntegerLiteral(5)>>, <<"{", "5", "}">>, loc))

\* (Data){1}: a union literal, whose list holds the one initialized member
UnionLit(loc) ==
    CompoundLiteralExpr(QT("Data", DataTy),
        InitListExpr(<<IntegerLiteral(1)>>, <<"{", "1", "}">>, loc))

\* (P2){1, 2} for a struct P2 with a constructor: a compound literal whose
\* initializer is a constructor call (C++ arguments)
CtorLit(loc) ==
    CompoundLiteralExpr(QT("struct P2", P2Ty),
        OtherExpr("CXXConstructExpr", <<"{", "1", ",", "2", "}">>, loc))

\* the literals by nesting
Literals(loc) ==
    {PointLit(1, 2, loc), PointLit(10, 20, loc), VecLit(loc), LineLit(loc), BoxLit(loc),
     LabelLit(loc), EnumLit(loc), ComplexLit(loc), ScalarLit(loc), UnionLit(loc),
     CtorLit(loc)}

\* expressions handed to exprToString
Exprs ==
    UNION { Literals(loc) \cup
            { OtherExpr("DeclRefExpr", <<"RED">>, loc),
              OtherExpr("BinaryOperator", <<"FIVE", "+", "1">>, loc),
              OtherExpr("ParenExpr", <<"(", "1", ")">>, loc),
              ComplexVal(loc),
              InfoList(loc) } : loc \in Locs }
    \cup { ExpandedLit,
           ExpandedExpr("ParenExpr", <<"(", "1", ")">>, <<"PAREN">>),
           ExpandedExpr("ParenExpr", <<"(", "FIVE", "+", "1", ")">>, <<"SIX">>),
           ExpandedExpr("DeclRefExpr", <<"RED">>, <<"R">>),
           ExpandedExpr("UnaryOperator", <<"-", "7">>, <<"MINUS7">>) }
    \cup { IntegerLiteral(0), IntegerLiteral(42), IntegerLiteral(-7), IntegerLiteral(1024),
           FloatingLiteral("1.5"), StringLiteral("ok"), StringLiteral("") }

-----------------------------------------------------------------------------
(* Translation units the compilation driver can hand back *)

NoInit == [kind |-> "NoInit"]

VarDecl(name, init) == [kind |-> "VarDecl", name |-> name, init |-> init]

TypedefDecl(name) == [kind |-> "TypedefDecl", name |-> name]

NoUnit == [kind |-> "NoUnit"]

Unit(decls) == [kind |-> "Unit", decls |-> decls]

\* the header's declarations followed by the sentinel variable
UnitOf(init) == Unit(<<TypedefDecl("Point"), VarDecl("other", IntegerLiteral(1)),
                       VarDecl("__dummy_var", init)>>)

Units ==
    { UnitOf(ImplicitCastExpr(e)) : e \in Literals("macro") }
    \cup { UnitOf(e) : e \in {EnumLit("file"), ComplexLit("file"), ExpandedLit,
                              ComplexVal("macro")} }
    \cup { UnitOf(IntegerLiteral(42)),                  \* #define X 42
           UnitOf(NoInit),                              \* no initializer parsed
           Unit(<<TypedefDecl("Point")>>),           \* sentinel dropped
           NoUnit }

-----------------------------------------------------------------------------
(* Entry points *)

\* header paths as character sequences
SysHeader == <<"<", "s", ".", "h", ">">>

PlainHeader == <<"p", ".", "h">>

\* "<>" and "<"
EmptyAngles == <<"<", ">">>

OpenAngle == <<"<">>

HeaderPaths == {SysHeader, PlainHeader, EmptyAngles, OpenAngle}

\* define_name: the text the caller passes, pasted after the type name
DefineNames == {"P"}

\* header_path[i] of a NUL-terminated string (0-based)
CharAt(path, i) == IF i < Len(path) THEN path[i + 1] ELSE "NUL"

Absent == [kind |-> "absent"]

Crashed == [kind |-> "fault"]

Returned(txt) == [kind |-> "string", text |-> txt]

\* the declaration loop of constants.cpp:256-279 from declaration i (1-based);
\* a sentinel without initializer makes vd->getInit() null, and the call
\* through it faults
RECURSIVE ScanDecls(_, _, _, _, _)
ScanDecls(decls, i, define_name, names, oob) ==
    IF i > Len(decls) THEN Absent
    ELSE
        LET d == decls[i] IN
        IF d.kind = "VarDecl" /\ d.name = "__dummy_var"
        THEN IF d.init = NoInit THEN Crashed
             ELSE
                LET init == IgnoreImpCasts(d.init) IN
                IF init.kind = "CompoundLiteralExpr"
                THEN LET type_name == resolveTypeName(init.type, names)
                         init_str == compoundLiteralToNamedInit(init, names, oob)
                     IN  IF init_str.fault THEN Crashed
                         ELSE Returned(<<type_name, " ", define_name, " = ">>
                                       \o init_str.out \o <<";">>)
                ELSE ScanDecls(decls, i + 1, define_name, names, oob)
        ELSE ScanDecls(decls, i + 1, define_name, names, oob)

\* the test of constants.cpp:220 reading the terminator instead of the last
\* character
IsSystemHeader_pastEnd(header_path) ==
    CharAt(header_path, 0) = "<" /\ CharAt(header_path, Len(header_path)) = ">"

\* constants.cpp:219-223
IsSystemHeader(header_path) ==
    CharAt(header_path, 0) = "<" /\ CharAt(header_path, Len(header_path) - 1) = ">"

\* constants.cpp:211-283 up to the copy into the heap; unit is what
\* buildASTFromCodeWithArgs returns for the generated code
macro_to_named_initializer(header_path, define_name, unit, names, oob) ==
    IF IsSystemHeader(header_path) THEN Absent
    ELSE IF unit = NoUnit THEN Absent
    ELSE ScanDecls(unit.decls, 1, define_name, names, oob)

\* buildASTFromCodeWithArgs (constants.cpp:245) is reached only past the
\* early return of constants.cpp:220-223
DriverInvoked(header_path) == ~IsSystemHeader(header_path)

\* the driver outcome of a call that never invoked the driver
NotBuilt == [kind |-> "NotBuilt"]

Addrs == 1..MaxLive

Faulted == result = Crashed

Init ==
    /\ customTypeNames = EmptyNames
    /\ setCall = None
    /\ prevKeys = {}
    /\ qt = None
    /\ typeName = ""
    /\ expr = None
    /\ text = None
    /\ call = None
    /\ result = None
    /\ heap = {}
    /\ held = {}

\* set_custom_type_names called by the host
SetCustomTypeNames ==
    /\ ~Faulted
    /\ \E in \in SetInputs : set_custom_type_names(in.usrs, in.names, in.count)
    /\ UNCHANGED <<setCall, prevKeys, qt, typeName, expr, text, call, result, heap, held>>

\* macro_to_named_initializer whose registry lookup inserts the key it
\* misses, as customTypeNames[usr] in place of find(usr) would
MacroToNamedInitializer_inserting ==
    /\ ~Faulted
    /\ \E header_path \in HeaderPaths, define_name \in DefineNames :
       \E unit \in IF DriverInvoked(header_path) THEN Units ELSE {NotBuilt},
          oob \in IF DriverInvoked(header_path) THEN OobReads ELSE {Trap} :
          LET r == macro_to_named_initializer(header_path, define_name, unit,
                                              customTypeNames, oob)
          IN  /\ call' = [header_path |-> header_path, define_name |-> define_name,
                          unit |-> unit]
              /\ IF r.kind = "string"
                 THEN LET usr == getUSRForType(
                                 IgnoreImpCasts(unit.decls[Len(unit.decls)].init).type)
                      IN  /\ customTypeNames' =
                                IF usr \in DOMAIN customTypeNames THEN customTypeNames
                                ELSE Put(customTypeNames, usr, "")
                          /\ \E cstr \in Addrs \ heap :
                                /\ result' = [kind |-> "string", text |-> r.text,
                                              addr |-> cstr]
                                /\ heap' = heap \cup {cstr}
                                /\ held' = held \cup {cstr}
                 ELSE /\ result' = r
                      /\ UNCHANGED <<customTypeNames, heap, held>>
    /\ UNCHANGED <<setCall, prevKeys, qt, typeName, expr, text>>

\* macro_to_named_initializer called by the host; a produced string is
\* malloc'ed (constants.cpp:271-273) and handed to the caller
MacroToNamedInitializer ==
    /\ ~Faulted
    /\ \E header_path \in HeaderPaths, define_name \in DefineNames :
       \E unit \in IF DriverInvoked(header_path) THEN Units ELSE {NotBuilt},
          oob \in IF DriverInvoked(header_path) THEN OobReads ELSE {Trap} :
          LET r == macro_to_named_initializer(header_path, define_name, unit,
                                              customTypeNames, oob)
          IN  /\ call' = [header_path |-> header_path, define_name |-> define_name,
                          unit |-> unit]
              /\ IF r.kind = "string"
                 THEN \E cstr \in Addrs \ heap :
                      /\ result' = [kind |-> "string", text |-> r.text, addr |-> cstr]
                      /\ heap' = heap \cup {cstr}
                      /\ held' = held \cup {cstr}
                 ELSE /\ result' = r
                      /\ UNCHANGED <<heap, held>>
    /\ UNCHANGED <<customTypeNames, setCall, prevKeys, qt, typeName, expr, text>>

NULL == 0

\* free_cstr that releases nothing
free_cstr_leak(s) == heap' = heap

\* constants.cpp:285-287
free_cstr(s) == heap' = IF s # NULL THEN heap \ {s} ELSE heap

\* the caller releases a string it holds, or passes a null pointer
FreeCstr ==
    /\ ~Faulted
    /\ \E s \in held \cup {NULL} :
          /\ free_cstr(s)
          /\ held' = held \ {s}
    /\ UNCHANGED <<customTypeNames, setCall, prevKeys, qt, typeName, expr, text,
                   call, result>>

Next == SetCustomTypeNames \/ MacroToNamedInitializer \/ FreeCstr

Spec == Init /\ [][Next]_vars

-----------------------------------------------------------------------------
(* The registry observed call by call *)

\* set_custom_type_names with its arguments and the keys it found recorded
SetRecorded ==
    /\ \E in \in SetInputs :
          /\ set_custom_type_names(in.usrs, in.names, in.count)
          /\ setCall' = in
    /\ prevKeys' = DOMAIN customTypeNames
    /\ UNCHANGED <<qt, typeName, expr, text, call, result, heap, held>>

NextRegistry == SetRecorded

SpecRegistry == Init /\ [][NextRegistry]_vars

-----------------------------------------------------------------------------
(* The resolver and the serializer applied under a fixed registry *)

ResolveKeys == {"c:I", "c:f", "c:*C", "c:$@SA@Point", "c:{n3I", ""}

\* every registry a single set_custom_type_names call can leave behind
Registries(keys) == UNION { [K -> NameSet] : K \in SUBSET keys }

InitResolve ==
    /\ customTypeNames \in Registries(ResolveKeys)
    /\ setCall = None
    /\ prevKeys = {}
    /\ qt = None
    /\ typeName = ""
    /\ expr = None
    /\ text = None
    /\ call = None
    /\ result = None
    /\ heap = {}
    /\ held = {}

\* one call of resolveTypeName
ResolveTypeName ==
    /\ \E T \in QualTypes :
          /\ qt' = T
          /\ typeName' = resolveTypeName(T, customTypeNames)
    /\ UNCHANGED <<customTypeNames, setCall, prevKeys, expr, text, call, result, heap, held>>

NextResolve == ResolveTypeName

SpecResolve == InitResolve /\ [][NextResolve]_vars

InitSerialize ==
    /\ customTypeNames \in Registries(KeySet)
    /\ setCall = None
    /\ prevKeys = {}
    /\ qt = None
    /\ typeName = ""
    /\ expr = None
    /\ text = None
    /\ call = None
    /\ result = None
    /\ heap = {}
    /\ held = {}

\* one call of exprToString
ExprToString ==
    /\ \E e \in Exprs, oob \in OobReads :
          /\ expr' = e
          /\ text' = exprToString(e, customTypeNames, oob)
    /\ UNCHANGED <<customTypeNames, setCall, prevKeys, qt, typeName, call, result, heap, held>>

NextSerialize == ExprToString

SpecSerialize == InitSerialize /\ [][NextSerialize]_vars

-----------------------------------------------------------------------------
(* Reading text *)

RECURSIVE Flat(_)
Flat(toks) == IF toks = << >> THEN "" ELSE Head(toks) \o Flat(Tail(toks))

RECURSIVE Count(_, _)
Count(toks, t) ==
    IF toks = << >> THEN 0
    ELSE (IF Head(toks) = t THEN 1 ELSE 0) + Count(Tail(toks), t)

\* nesting level after the first n tokens
Level(toks, n) == Count(SubSeq(toks, 1, n), "{") - Count(SubSeq(toks, 1, n), "}")

Balanced(toks) ==
    /\ \A n \in 1..Len(toks) : Level(toks, n) >= 0
    /\ Level(toks, Len(toks)) = 0

MaxLevel(toks) ==
    IF toks = << >> THEN 0
    ELSE CHOOSE m \in 0..Len(toks) :
            /\ \E n \in 1..Len(toks) : Level(toks, n) = m
            /\ \A n \in 1..Len(toks) : Level(toks, n) <= m

Contains(toks, sub) ==
    \E n \in 0..(Len(toks) - Len(sub)) : SubSeq(toks, n + 1, n + Len(sub)) = sub

Sentinels == {"<not a record>", "<not an init list>"}

-----------------------------------------------------------------------------
(* Override registry: replacement *)

Supplied(c) == { c.usrs[i] : i \in 1..c.count }

LastIndex(c, k) ==
    CHOOSE i \in 1..c.count :
        c.usrs[i] = k /\ \A j \in (i + 1)..c.count : c.usrs[j] # k

\* C1: after a set_custom_type_names call the registry holds exactly the
\* entries of that call (the last name given for a repeated key) and no key
\* it held before the call survives unless the call supplied it again.
RegistryReplacementIsTotal ==
    setCall # None =>
        /\ DOMAIN customTypeNames = Supplied(setCall)
        /\ \A k \in Supplied(setCall) :
              customTypeNames[k] = setCall.names[LastIndex(setCall, k)]
        /\ \A k \in prevKeys \ Supplied(setCall) : k \notin DOMAIN customTypeNames

\* setAll([(k1,n1)]) was followed by setAll([(k2,n2)]) with k1 # k2
ReplacedByOtherKey ==
    /\ setCall # None
    /\ setCall.count = 1
    /\ Cardinality(prevKeys) = 1
    /\ setCall.usrs[1] \notin prevKeys

-----------------------------------------------------------------------------
(* Type resolver *)

\* C2: a type whose USR is a key of the registry resolves to the registered
\* name whatever its category, and a type whose USR is not a key resolves to
\* its structural name.
OverridePrecedence ==
    (qt # None /\ qt.canon.usrOk) =>
        IF qt.canon.usr \in DOMAIN customTypeNames
        THEN typeName = customTypeNames[qt.canon.usr]
        ELSE typeName = normalizeTypeName(qt)

\* an int, overridden, was resolved
OverriddenPrimitiveResolved ==
    /\ qt = QT("int", IntTy)
    /\ "c:I" \in DOMAIN customTypeNames
    /\ typeName \in NameSet

\* the fixed names of the primitive table, by canonical type
PrimitiveTable(c) ==
    CASE c.cls = "Pointer" /\ c.str \in {"char *", "const char *"} -> "str"
      [] c.cls = "Pointer" /\ c.str \notin {"char *", "const char *"} -> "anyptr"
      [] c.cls = "Builtin" /\ c.str = "int" -> "i32"
      [] c.cls = "Builtin" /\ c.str = "short" -> "i16"
      [] c.cls = "Builtin" /\ c.str = "long long" -> "i64"
      [] c.cls = "Builtin" /\ c.str \in {"char", "unsigned char"} -> "u8"
      [] c.cls = "Builtin" /\ c.str = "float" -> "f32"
      [] c.cls = "Builtin" /\ c.str = "double" -> "f64"
      [] OTHER -> ""

\* C3: with an empty registry every type of the primitive table resolves to
\* its fixed name (int i32, short i16, long long i64, unsigned char and char
\* u8, float f32, double f64, char* str, any other pointer anyptr).
PrimitiveMappingTable ==
    (qt # None /\ customTypeNames = EmptyNames /\ PrimitiveTable(qt.canon) # "") =>
        typeName = PrimitiveTable(qt.canon)

\* C4: under one registry, every type with the same canonical type as the
\* resolved one resolves to the same name, however it is spelled.
ResolveIgnoresSpelling ==
    qt # None =>
        \A T \in QualTypes :
            T.canon = qt.canon => resolveTypeName(T, customTypeNames) = typeName

-----------------------------------------------------------------------------
(* Literal serializer *)

LiteralKinds == {"IntegerLiteral", "FloatingLiteral", "StringLiteral", "CompoundLiteralExpr"}

\* every compound literal of e gives each declared field of its record an
\* initializer of its own
RECURSIVE Aligned(_)
Aligned(e) ==
    /\ Len(e.init.inits) = Len(Fields(e.type.canon.decl))
    /\ \A i \in 1..Len(e.init.inits) :
          LET c == IgnoreImpCasts(e.init.inits[i]) IN
          (c.kind = "CompoundLiteralExpr" /\ isRecordType(c.type.canon)
              /\ c.init.kind = "InitListExpr") => Aligned(c)

NestedChildren(e) ==
    { IgnoreImpCasts(e.init.inits[i]) : i \in 1..Len(e.init.inits) }
        \cap { c \in { IgnoreImpCasts(e.init.inits[i]) : i \in 1..Len(e.init.inits) } :
                 c.kind = "CompoundLiteralExpr" }

\* number of levels of compound literals in e
RECURSIVE Depth(_)
Depth(e) ==
    LET ds == { Depth(c) : c \in NestedChildren(e) } IN
    IF ds = {} THEN 1 ELSE 1 + (CHOOSE d \in ds : \A x \in ds : x <= d)

\* number of compound literals in e
RECURSIVE Groups(_)
Groups(e) ==
    LET c(i) == IgnoreImpCasts(e.init.inits[i])
        g[i \in 0..Len(e.init.inits)] ==
            IF i = 0 THEN 0
            ELSE g[i - 1] + (IF c(i).kind = "CompoundLiteralExpr" THEN Groups(c(i)) ELSE 0)
    IN  1 + g[Len(e.init.inits)]

\* Name{f1=v1, f2=v2, ...}: the declared fields in order, the i-th with the
\* i-th initializer, joined by ", "
RECURSIVE Rendering(_, _)
RECURSIVE RenderFields(_, _, _)
RenderFields(fields, inits, names) ==
    IF fields = << >> THEN << >>
    ELSE LET c == IgnoreImpCasts(Head(inits))
             value == IF c.kind = "CompoundLiteralExpr" THEN Rendering(c, names)
                      ELSE exprToString(c, names, Trap).out
         IN  <<Head(fields), "=">> \o value
               \o (IF Len(fields) > 1 THEN <<", ">> ELSE << >>)
               \o RenderFields(Tail(fields), Tail(inits), names)

Rendering(e, names) ==
    <<resolveTypeName(e.type, names), "{">>
        \o RenderFields(Fields(e.type.canon.decl), e.init.inits, names) \o <<"}">>

\* C6: a compound literal of a record, nested N levels deep, is rendered
\* without fault with N levels of matching Name{...} groups, one group per
\* compound literal, and at every level the declared fields appear in order
\* as fieldName=value, the i-th field with the i-th initializer, joined by
\* ", ".
RoundTripNesting ==
    (/\ expr # None
     /\ expr.kind = "CompoundLiteralExpr"
     /\ isRecordType(expr.type.canon)
     /\ expr.init.kind = "InitListExpr") =>
        /\ ~text.fault
        /\ Aligned(expr)
        /\ text.out = Rendering(expr, customTypeNames)
        /\ Balanced(text.out)
        /\ Count(text.out, "{") = Groups(expr)
        /\ Count(text.out, "}") = Groups(expr)
        /\ MaxLevel(text.out) = Depth(expr)

\* COMPLEX_VAL as the driver can hand it over: the functional cast of the
\* fixture as written, and the compound literal of its parenthesised form
ComplexValForms == UNION { {ComplexVal(loc), ComplexLit(loc)} : loc \in Locs }

\* C7: the COMPLEX_VAL literal is rendered with matching nested braces for
\* the outer struct, the anonymous inner struct and the Point field, and
\* its string member as "ok".ref().
ComplexValRendered ==
    (expr # None /\ expr \in ComplexValForms) =>
        /\ ~text.fault
        /\ Balanced(text.out)
        /\ Count(text.out, "{") >= 3
        /\ Contains(text.out, <<"\"", "ok", "\".ref()">>)

\* the source span of e as it is written where e is used
Written(e) == IF e.loc = "expansion" THEN e.invocation ELSE e.span

\* C8: an expression of a kind the serializer has no case for is rendered as
\* its non-empty source span.
FallbackSafety ==
    (expr # None /\ expr.kind \notin LiteralKinds) =>
        /\ ~text.fault
        /\ text.out # << >>
        /\ text.out = Written(expr)

-----------------------------------------------------------------------------
(* Entry point *)

\* "<Name> <macro> = <Name>{...};" without failure marker
IsDeclaration(toks, define_name) ==
    /\ Len(toks) >= 8
    /\ toks[2] = " "
    /\ toks[3] = define_name
    /\ toks[4] = " = "
    /\ toks[5] = toks[1]
    /\ toks[6] = "{"
    /\ toks[Len(toks) - 1] = "}"
    /\ toks[Len(toks)] = ";"
    /\ \A i \in 1..Len(toks) : toks[i] \notin Sentinels

\* C5: a returned string is a declaration "<Name> <macro> = <Name>{...};"
\* with one resolved Name, and never carries a failure marker.
ReturnedStringIsDeclaration ==
    (result # None /\ result.kind = "string") =>
        IsDeclaration(result.text, call.define_name)

\* C9: no call faults: macro_to_named_initializer returns a string or absent.
NoOperationFaults == result # Crashed

\* C10: the live allocations are exactly the strings the caller holds; a
\* step that returns a string adds that one fresh allocation, a step that
\* returns none adds nothing, and a release removes exactly the released
\* string.
OwnershipStep ==
    /\ (call' # call \/ result' # result \/ heap' \ heap # {}) =>
          IF result'.kind = "string"
          THEN result'.addr \notin heap /\ heap' = heap \cup {result'.addr}
          ELSE heap' = heap
    /\ held' # held /\ held' \subseteq held =>
          /\ Cardinality(held \ held') = 1
          /\ heap' = heap \ (held \ held')
    /\ held' = held /\ call' = call /\ result' = result => heap' = heap

StringOwnership == [](heap = held) /\ [][OwnershipStep]_vars

\* a string was returned and released, and nothing is live
ReturnedAndReleased ==
    /\ result # None
    /\ result.kind = "string"
    /\ heap = {}
    /\ held = {}

-----------------------------------------------------------------------------
(* System headers *)

\* begins with '<' and ends with '>'
AngleBracketed(path) == Len(path) >= 1 /\ path[1] = "<" /\ path[Len(path)] = ">"

\* C11: a call whose header path begins with '<' and ends with '>' returns
\* absent without the compilation driver having been invoked, whatever the
\* registry holds.
SystemHeaderRejected ==
    (call # None /\ AngleBracketed(call.header_path)) =>
        /\ result = Absent
        /\ call.unit = NotBuilt

\* <s.h> was evaluated under a non-empty registry
SystemHeaderEvaluated ==
    /\ call # None
    /\ call.header_path = SysHeader
    /\ result = Absent
    /\ customTypeNames # EmptyNames

-----------------------------------------------------------------------------
(* Registry frame *)

\* C12: the registry is empty at start, and a step of an evaluation or of a
\* release (one that changes the call, the result or the allocations) leaves
\* it as the last set_custom_type_names call left it.
RegistryFrame ==
    /\ customTypeNames = EmptyNames
    /\ [][(call' # call \/ result' # result \/ heap' # heap \/ held' # held)
            => customTypeNames' = customTypeNames]_vars

\* an evaluation used the registered name of Point, its string was released,
\* and the registry still holds the entry
OverrideUsedAndKept ==
    /\ result # None
    /\ result.kind = "string"
    /\ result.text[1] = "Vec2"
    /\ customTypeNames = [k \in {"c:$@SA@Point"} |-> "Vec2"]
    /\ heap = {}

-----------------------------------------------------------------------------
(* Types without identity *)

\* C13: a type whose identity generation fails resolves to its structural
\* name under every registry, never to a registered name.
UnidentifiedTypeNotOverridden ==
    (qt # None /\ ~qt.canon.usrOk) => typeName = normalizeTypeName(qt)

====
